---- MODULE Spec2Model ----
(***************************************************************************)
(* Model of the two entry points of the Foot-and-Mouth-Disease detector:   *)
(*   api/python/predict.py          Flask handler predict(path)            *)
(*   prediction_service/predict.py  command-line script, main(image_path)  *)
(*                                                                         *)
(* One run of the model is one run of one of the two programs (entry).     *)
(* The HTTP program loads the model at import time and then serves POST    *)
(* requests one after the other; the command-line program handles one      *)
(* invocation and exits.  Each statement group of the pipeline is one      *)
(* action; a statement that raises is one action together with the except  *)
(* block that catches it.                                                  *)
(*                                                                         *)
(* Representation.  A Python dict is a record; the JSON text produced by   *)
(* json.dumps / jsonify is represented by the object it encodes.  A text   *)
(* built by an f-string is a sequence of one-character strings.  A model   *)
(* score is the numerator of a fraction over ScoreDen.  An exception is a  *)
(* record of its type and of the source line that raised it.               *)
(***************************************************************************)
EXTENDS Integers, Sequences, FiniteSets, TLC

VARIABLES entry, pc, model, model_load_error, request, argv, img_bgr,
          ran, prediction, exc, response, output_json, stdout

vars == <<entry, pc, model, model_load_error, request, argv, img_bgr,
          ran, prediction, exc, response, output_json, stdout>>

(***************************************************************************)
(* Bounds of the model.                                                    *)
(***************************************************************************)
\* Longest output vector the black-box model returns (0 .. MaxOut entries).
MaxOut == 3
\* Scores are the fractions s / ScoreDen.
ScoreDen == 32
\* Scores within MaxScore steps of 0 and within MaxScore steps of 1.
MaxScore == 3
\* Most command-line arguments after the script name.
MaxArgs == 2

Scores == (0 .. MaxScore) \cup { ScoreDen - k : k \in 0 .. MaxScore }

RECURSIVE SeqsUpTo(_, _)
SeqsUpTo(S, n) ==
  IF n = 0 THEN { <<>> }
  ELSE LET shorter == SeqsUpTo(S, n - 1)
       IN  shorter \cup { Append(s, x) : s \in { t \in shorter : Len(t) = n - 1 }, x \in S }

\* What model.predict can return, flattened: any vector of scores.
Outputs == SeqsUpTo(Scores, MaxOut)

(***************************************************************************)
(* The environment: uploaded files and files on disk.                      *)
(***************************************************************************)
\* Content of an uploaded file: bytes cv2.imdecode turns into an image, or
\* bytes for which it returns None.
ByteKinds == { "decodable", "undecodable" }

\* request.files of a POST request: a map from field name to file content.
FileMaps ==
  { <<>> } \cup { [image |-> b] : b \in ByteKinds }
           \cup { [photo |-> b] : b \in ByteKinds }
           \cup { [image |-> b, photo |-> c] : b \in ByteKinds, c \in ByteKinds }

\* Paths given on the command line; cv2.imread reads an image from the
\* first and returns None for the other.
Paths == { "cow.jpg", "missing.jpg" }
ReadablePaths == { "cow.jpg" }

ArgLists == { <<"predict.py">> \o s : s \in SeqsUpTo(Paths, MaxArgs) }

(***************************************************************************)
(* Values.                                                                 *)
(***************************************************************************)
Unset == <<"unset">>
NoExc == [type |-> "none", line |-> 0]
NoResponse == [status |-> 0, body |-> <<>>]
NoRequest == [method |-> "none", files |-> <<>>]

\* str(e)
Str(e) == <<"str", e.type>>
\* traceback.format_exc() while handling e
FormatExc(e) == <<"Traceback", e.type, e.line>>

\* The order of the statements of the pipeline in either file.
PipelineOrder ==
  << "decode", "cvtColor", "resize", "normalize", "gray", "haralick", "predict", "format" >>

Ok(stage) == [stage |-> stage, ok |-> TRUE]
Failed(stage) == [stage |-> stage, ok |-> FALSE]

(***************************************************************************)
(* Formatting the result.                                                  *)
(***************************************************************************)
class_labels == << "Healthy", "FMD Diseased" >>

\* ArgMax with the last maximal entry chosen instead of the first.
ArgMax_Last(v) ==
  (CHOOSE i \in 1 .. Len(v) :
      /\ \A j \in 1 .. Len(v) : v[j] <= v[i]
      /\ \A j \in (i + 1) .. Len(v) : v[j] < v[i]) - 1

\* np.argmax: the 0-based index of the first maximal entry (v not empty).
ArgMax(v) ==
  (CHOOSE i \in 1 .. Len(v) :
      /\ \A j \in 1 .. Len(v) : v[j] <= v[i]
      /\ \A j \in 1 .. (i - 1) : v[j] < v[i]) - 1

\* NpMax with the first entry taken, whatever the others are.
NpMax_First(v) == v[1]

\* np.max: the greatest entry (v not empty).
NpMax(v) == CHOOSE m \in { v[j] : j \in 1 .. Len(v) } : \A j \in 1 .. Len(v) : v[j] <= m

DigitChars == << "0", "1", "2", "3", "4", "5", "6", "7", "8", "9" >>

RECURSIVE IntToChars(_)
IntToChars(n) ==
  IF n < 10 THEN << DigitChars[n + 1] >>
  ELSE Append(IntToChars(n \div 10), DigitChars[(n % 10) + 1])

\* round(x * 100, 2 decimals) of x = s / ScoreDen, in hundredths of a percent,
\* rounding a tie to the even neighbour as the ".2f" format does.
RoundHundredths(s) ==
  LET q == (10000 * s) \div ScoreDen
      r == (10000 * s) % ScoreDen
  IN  IF 2 * r > ScoreDen THEN q + 1
      ELSE IF 2 * r < ScoreDen THEN q
      ELSE IF q % 2 = 0 THEN q ELSE q + 1

\* f"{confidence * 100:.2f}%"
FormatConfidence(s) ==
  LET h == RoundHundredths(s)
  IN  IntToChars(h \div 100)
        \o << ".", DigitChars[((h % 100) \div 10) + 1], DigitChars[(h % 10) + 1], "%" >>

TypeOK ==
  /\ entry \in { "http", "cli" }
  /\ model \in { "unset", "None", "model" }
  /\ img_bgr \in { "unset", "None", "image" }
  /\ prediction \in Outputs
  /\ argv \in ArgLists
  /\ request.files \in FileMaps

(***************************************************************************)
(* Initial state: the program has been started, nothing has run.           *)
(***************************************************************************)
Init ==
  /\ entry \in { "http", "cli" }
  /\ pc = "start"
  /\ model = "unset"
  /\ model_load_error = Unset
  /\ request = NoRequest
  /\ argv \in ArgLists
  /\ (entry = "http" => argv = <<"predict.py">>)
  /\ img_bgr = "unset"
  /\ ran = <<>>
  /\ prediction = <<>>
  /\ exc = NoExc
  /\ response = NoResponse
  /\ output_json = <<>>
  /\ stdout = <<>>

(***************************************************************************)
(* api/python/predict.py                                                   *)
(***************************************************************************)
\* return jsonify(body), status
HttpRespond(status, body) ==
  /\ response' = [status |-> status, body |-> body]
  /\ pc' = "done"

\* except Exception as e: (lines 98-104)
HttpExcept(e) ==
  /\ exc' = e
  /\ HttpRespond(500, [error |-> "An error occurred during prediction.",
                       details |-> Str(e),
                       trace |-> FormatExc(e)])

\* A library call of the handler: it returns, or it raises and the except
\* block answers.
HttpLibraryCall(stage, line, type, next) ==
  /\ entry = "http"
  /\ pc = stage
  /\ \E raises \in BOOLEAN :
       IF raises
       THEN /\ ran' = Append(ran, Failed(stage))
            /\ HttpExcept([type |-> type, line |-> line])
       ELSE /\ ran' = Append(ran, Ok(stage))
            /\ pc' = next
            /\ UNCHANGED <<exc, response>>
  /\ UNCHANGED <<entry, model, model_load_error, request, argv, img_bgr,
                 prediction, output_json, stdout>>

\* Module level, lines 22-29: the model is loaded once, when the application
\* starts; a failure leaves model = None and keeps the traceback.
HttpStartup ==
  /\ entry = "http"
  /\ pc = "start"
  /\ \E loads \in BOOLEAN :
       IF loads
       THEN /\ model' = "model"
            /\ UNCHANGED model_load_error
       ELSE /\ model' = "None"
            /\ model_load_error' = FormatExc([type |-> "OSError", line |-> 24])
  /\ pc' = "idle"
  /\ UNCHANGED <<entry, request, argv, img_bgr, ran, prediction, exc, response,
                 output_json, stdout>>

\* A POST request arrives and Flask calls predict(path): the locals of the
\* call are fresh.
HttpRequest ==
  /\ entry = "http"
  /\ pc \in { "idle", "done" }
  /\ \E f \in FileMaps : request' = [method |-> "POST", files |-> f]
  /\ img_bgr' = "unset"
  /\ ran' = <<>>
  /\ prediction' = <<>>
  /\ exc' = NoExc
  /\ response' = NoResponse
  /\ pc' = "check_model"
  /\ UNCHANGED <<entry, model, model_load_error, argv, output_json, stdout>>

\* HttpCheckModel with the check left out.
HttpCheckModel_Skip ==
  /\ entry = "http"
  /\ pc = "check_model"
  /\ pc' = "check_image"
  /\ UNCHANGED <<entry, model, model_load_error, request, argv, img_bgr, ran,
                 prediction, exc, response, output_json, stdout>>

\* Lines 48-52: if model is None.
HttpCheckModel ==
  /\ entry = "http"
  /\ pc = "check_model"
  /\ IF model = "None"
     THEN HttpRespond(500, [error |-> "Model failed to load on the server.",
                            details |-> model_load_error])
     ELSE /\ pc' = "check_image"
          /\ UNCHANGED response
  /\ UNCHANGED <<entry, model, model_load_error, request, argv, img_bgr, ran,
                 prediction, exc, output_json, stdout>>

\* HttpCheckImage with the check left out: request.files['image'] raises the
\* key error inside the try block.
HttpCheckImage_NoCheck ==
  /\ entry = "http"
  /\ pc = "check_image"
  /\ IF "image" \notin DOMAIN request.files
     THEN HttpExcept([type |-> "BadRequestKeyError", line |-> 59])
     ELSE /\ pc' = "decode"
          /\ UNCHANGED <<exc, response>>
  /\ UNCHANGED <<entry, model, model_load_error, request, argv, img_bgr, ran,
                 prediction, output_json, stdout>>

\* Lines 56-57: if 'image' not in request.files.
HttpCheckImage ==
  /\ entry = "http"
  /\ pc = "check_image"
  /\ IF "image" \notin DOMAIN request.files
     THEN /\ HttpRespond(400, [error |-> "No image file provided in the request."])
          /\ UNCHANGED exc
     ELSE /\ pc' = "decode"
          /\ UNCHANGED <<exc, response>>
  /\ UNCHANGED <<entry, model, model_load_error, request, argv, img_bgr, ran,
                 prediction, output_json, stdout>>

\* Lines 59-68: file.read(), np.frombuffer, cv2.imdecode, if img_bgr is None.
HttpDecode ==
  /\ entry = "http"
  /\ pc = "decode"
  /\ \E raises \in BOOLEAN :
       IF raises
       THEN /\ ran' = Append(ran, Failed("decode"))
            /\ HttpExcept([type |-> "cv2.error", line |-> 66])
            /\ UNCHANGED img_bgr
       ELSE IF request.files["image"] = "decodable"
       THEN /\ img_bgr' = "image"
            /\ ran' = Append(ran, Ok("decode"))
            /\ pc' = "cvtColor"
            /\ UNCHANGED <<exc, response>>
       ELSE /\ img_bgr' = "None"
            /\ ran' = Append(ran, Failed("decode"))
            /\ HttpRespond(400, [error |->
                 "Could not decode the image file. It might be corrupted."])
            /\ UNCHANGED exc
  /\ UNCHANGED <<entry, model, model_load_error, request, argv, prediction,
                 output_json, stdout>>

\* Line 72: cv2.cvtColor(img_bgr, cv2.COLOR_BGR2RGB)
HttpCvtColor == HttpLibraryCall("cvtColor", 72, "cv2.error", "resize")

\* Line 73: cv2.resize(img_rgb, (224, 224))
HttpResize == HttpLibraryCall("resize", 73, "cv2.error", "normalize")

\* Lines 74-75: img_resized / 255.0, np.expand_dims
HttpNormalize == HttpLibraryCall("normalize", 74, "MemoryError", "gray")

\* Line 78: cv2.cvtColor(img_resized, cv.COLOR_RGB2GRAY).  The module imports
\* cv2 and binds no name cv: evaluating the second argument raises NameError
\* before cvtColor is called, and the except block answers.  Lines 79-96 of
\* the handler are never reached.
HttpGray ==
  /\ entry = "http"
  /\ pc = "gray"
  /\ ran' = Append(ran, Failed("gray"))
  /\ HttpExcept([type |-> "NameError", line |-> 78])
  /\ UNCHANGED <<entry, model, model_load_error, request, argv, img_bgr,
                 prediction, output_json, stdout>>

(***************************************************************************)
(* prediction_service/predict.py                                           *)
(***************************************************************************)
\* CliExcept without the traceback.
CliExcept_NoTrace(e) ==
  /\ exc' = e
  /\ output_json' = [error |-> "An error occurred in the Python script.",
                     details |-> Str(e)]
  /\ pc' = "print"

\* except Exception as e: (lines 68-76); main returns the error object.
CliExcept(e) ==
  /\ exc' = e
  /\ output_json' = [error |-> "An error occurred in the Python script.",
                     details |-> Str(e),
                     trace |-> FormatExc(e)]
  /\ pc' = "print"

\* A library call of main: it returns, or it raises and the except block
\* makes the error object.
CliLibraryCall(stage, line, type, next) ==
  /\ entry = "cli"
  /\ pc = stage
  /\ \E raises \in BOOLEAN :
       IF raises
       THEN /\ ran' = Append(ran, Failed(stage))
            /\ CliExcept([type |-> type, line |-> line])
       ELSE /\ ran' = Append(ran, Ok(stage))
            /\ pc' = next
            /\ UNCHANGED <<exc, output_json>>
  /\ UNCHANGED <<entry, model, model_load_error, request, argv, img_bgr,
                 prediction, response, stdout>>

\* Lines 78-86: with a path argument main is called, without one the script
\* prints its own error object and ends.
CliStart ==
  /\ entry = "cli"
  /\ pc = "start"
  /\ IF Len(argv) > 1
     THEN /\ pc' = "load"
          /\ UNCHANGED stdout
     ELSE /\ stdout' = Append(stdout, [error |-> "No image path provided to Python script"])
          /\ pc' = "exit"
  /\ UNCHANGED <<entry, model, model_load_error, request, argv, img_bgr, ran,
                 prediction, exc, response, output_json>>

\* CliLoadModel with the load outside the try block: a failure leaves main
\* and ends the script with nothing printed.
CliLoadModel_Unguarded ==
  /\ entry = "cli"
  /\ pc = "load"
  /\ \E loads \in BOOLEAN :
       IF loads
       THEN /\ model' = "model"
            /\ pc' = "decode"
            /\ UNCHANGED exc
       ELSE /\ exc' = [type |-> "OSError", line |-> 35]
            /\ pc' = "exit"
            /\ UNCHANGED model
  /\ UNCHANGED <<entry, model_load_error, request, argv, img_bgr, ran,
                 prediction, response, output_json, stdout>>

\* Line 35: tf.keras.models.load_model('champion_model.keras'), inside the try.
CliLoadModel ==
  /\ entry = "cli"
  /\ pc = "load"
  /\ \E loads \in BOOLEAN :
       IF loads
       THEN /\ model' = "model"
            /\ pc' = "decode"
            /\ UNCHANGED <<exc, output_json>>
       ELSE /\ CliExcept([type |-> "OSError", line |-> 35])
            /\ UNCHANGED model
  /\ UNCHANGED <<entry, model_load_error, request, argv, img_bgr, ran,
                 prediction, response, stdout>>

\* CliImread without the test of the result: a None image goes on to the
\* next statement.
CliImread_NoCheck ==
  /\ entry = "cli"
  /\ pc = "decode"
  /\ IF argv[2] \in ReadablePaths
     THEN /\ img_bgr' = "image"
          /\ ran' = Append(ran, Ok("decode"))
     ELSE /\ img_bgr' = "None"
          /\ ran' = Append(ran, Failed("decode"))
  /\ pc' = "cvtColor"
  /\ UNCHANGED <<entry, model, model_load_error, request, argv, prediction,
                 exc, response, output_json, stdout>>

\* Lines 37-40: cv2.imread(image_path); None raises FileNotFoundError.
CliImread ==
  /\ entry = "cli"
  /\ pc = "decode"
  /\ \E raises \in BOOLEAN :
       IF raises
       THEN /\ ran' = Append(ran, Failed("decode"))
            /\ CliExcept([type |-> "cv2.error", line |-> 37])
            /\ UNCHANGED img_bgr
       ELSE IF argv[2] \in ReadablePaths
       THEN /\ img_bgr' = "image"
            /\ ran' = Append(ran, Ok("decode"))
            /\ pc' = "cvtColor"
            /\ UNCHANGED <<exc, output_json>>
       ELSE /\ img_bgr' = "None"
            /\ ran' = Append(ran, Failed("decode"))
            /\ CliExcept([type |-> "FileNotFoundError", line |-> 40])
  /\ UNCHANGED <<entry, model, model_load_error, request, argv, prediction,
                 response, stdout>>

\* Line 42: cv2.cvtColor(img_bgr, cv2.COLOR_BGR2RGB)
CliCvtColor == CliLibraryCall("cvtColor", 42, "cv2.error", "resize")

\* Line 45: cv2.resize(img_rgb, (224, 224))
CliResize == CliLibraryCall("resize", 45, "cv2.error", "normalize")

\* Lines 46-47: img_resized / 255.0, np.expand_dims
CliNormalize == CliLibraryCall("normalize", 46, "MemoryError", "gray")

\* Line 49: cv2.cvtColor(img_resized, cv2.COLOR_RGB2GRAY)
CliGray == CliLibraryCall("gray", 49, "cv2.error", "haralick")

\* Lines 50-51: calculate_haralick_features(img_gray), np.expand_dims
CliHaralick == CliLibraryCall("haralick", 50, "ValueError", "predict")

\* Line 54: model.predict([image_input, haralick_input], verbose=0)
CliPredict ==
  /\ entry = "cli"
  /\ pc = "predict"
  /\ \E raises \in BOOLEAN :
       IF raises
       THEN /\ ran' = Append(ran, Failed("predict"))
            /\ CliExcept([type |-> "InvalidArgumentError", line |-> 54])
            /\ UNCHANGED prediction
       ELSE /\ \E out \in Outputs : prediction' = out
            /\ ran' = Append(ran, Ok("predict"))
            /\ pc' = "format"
            /\ UNCHANGED <<exc, output_json>>
  /\ UNCHANGED <<entry, model, model_load_error, request, argv, img_bgr,
                 response, stdout>>

\* Lines 61-64: the result dict.
Result(v) ==
  [prediction |-> class_labels[ArgMax(v) + 1],
   confidence |-> FormatConfidence(NpMax(v))]

\* Lines 57-66: np.argmax raises ValueError on an empty vector, indexing
\* class_labels raises IndexError past its end, otherwise json.dumps(result)
\* is returned.
CliFormat ==
  /\ entry = "cli"
  /\ pc = "format"
  /\ IF Len(prediction) = 0
     THEN /\ ran' = Append(ran, Failed("format"))
          /\ CliExcept([type |-> "ValueError", line |-> 58])
     ELSE IF ArgMax(prediction) >= Len(class_labels)
     THEN /\ ran' = Append(ran, Failed("format"))
          /\ CliExcept([type |-> "IndexError", line |-> 62])
     ELSE /\ ran' = Append(ran, Ok("format"))
          /\ output_json' = Result(prediction)
          /\ pc' = "print"
          /\ UNCHANGED exc
  /\ UNCHANGED <<entry, model, model_load_error, request, argv, img_bgr,
                 prediction, response, stdout>>

\* CliPrint with the print left out.
CliPrint_Silent ==
  /\ entry = "cli"
  /\ pc = "print"
  /\ pc' = "exit"
  /\ UNCHANGED <<entry, model, model_load_error, request, argv, img_bgr, ran,
                 prediction, exc, response, output_json, stdout>>

\* Lines 82-83: print(output_json)
CliPrint ==
  /\ entry = "cli"
  /\ pc = "print"
  /\ stdout' = Append(stdout, output_json)
  /\ pc' = "exit"
  /\ UNCHANGED <<entry, model, model_load_error, request, argv, img_bgr, ran,
                 prediction, exc, response, output_json>>

Next ==
  \/ HttpStartup
  \/ HttpRequest
  \/ HttpCheckModel
  \/ HttpCheckImage
  \/ HttpDecode
  \/ HttpCvtColor
  \/ HttpResize
  \/ HttpNormalize
  \/ HttpGray
  \/ CliStart
  \/ CliLoadModel
  \/ CliImread
  \/ CliCvtColor
  \/ CliResize
  \/ CliNormalize
  \/ CliGray
  \/ CliHaralick
  \/ CliPredict
  \/ CliFormat
  \/ CliPrint

Spec == Init /\ [][Next]_vars

(***************************************************************************)
(* Vocabulary of the properties.                                           *)
(***************************************************************************)
SuccessKeys == { "prediction", "confidence" }
ErrorKeys == { "error", "details", "trace" }

HttpDone == entry = "http" /\ pc = "done"
CliReturned == entry = "cli" /\ pc \in { "print", "exit" } /\ Len(argv) > 1
CliExited == entry = "cli" /\ pc = "exit"

Stages(log) == { log[i] : i \in 1 .. Len(log) }

\* The request carries an 'image' file with content of kind b.
Uploaded(b) == "image" \in DOMAIN request.files /\ request.files["image"] = b

\* A library call of the HTTP handler raised.
HttpLibraryRaised == exc.type \in { "cv2.error", "MemoryError" }

\* Entry i (1-based) of v is maximal and no earlier entry is.
FirstMaxAt(v, i) ==
  /\ i \in 1 .. Len(v)
  /\ \A j \in 1 .. Len(v) : v[j] <= v[i]
  /\ \A j \in 1 .. (i - 1) : v[j] < v[i]

\* The label of a success object names the first maximal entry of v.
LabelRight(obj, v) ==
  /\ obj.prediction \in { "Healthy", "FMD Diseased" }
  /\ obj.prediction = "Healthy" <=> FirstMaxAt(v, 1)
  /\ obj.prediction = "FMD Diseased" <=> FirstMaxAt(v, 2)

CharValue(c) == CHOOSE d \in 0 .. 9 : DigitChars[d + 1] = c

RECURSIVE CharsToInt(_)
CharsToInt(cs) ==
  IF Len(cs) = 0 THEN 0
  ELSE 10 * CharsToInt(SubSeq(cs, 1, Len(cs) - 1)) + CharValue(cs[Len(cs)])

AllDigits(cs) == \A i \in 1 .. Len(cs) : \E d \in 0 .. 9 : DigitChars[d + 1] = cs[i]

\* The text c reads "<digits>.<two digits>%".
PercentText(c) ==
  /\ Len(c) >= 5
  /\ c[Len(c)] = "%"
  /\ c[Len(c) - 3] = "."
  /\ AllDigits(SubSeq(c, 1, Len(c) - 4))
  /\ AllDigits(SubSeq(c, Len(c) - 2, Len(c) - 1))

\* The number a percent text shows, in hundredths of a percent.
PercentValue(c) ==
  100 * CharsToInt(SubSeq(c, 1, Len(c) - 4)) + CharsToInt(SubSeq(c, Len(c) - 2, Len(c) - 1))

Abs(x) == IF x < 0 THEN 0 - x ELSE x

LabelIndex(label) == IF label = "Healthy" THEN 1 ELSE 2

\* The confidence of a success object is the score of the labelled entry of
\* v, that entry is the greatest of v, and the text shows 100 times the score
\* to the nearest hundredth.
ConfidenceRight(obj, v) ==
  LET i == LabelIndex(obj.prediction)
  IN  /\ i <= Len(v)
      /\ \A j \in 1 .. Len(v) : v[j] <= v[i]
      /\ PercentText(obj.confidence)
      /\ 2 * Abs(PercentValue(obj.confidence) * ScoreDen - 10000 * v[i]) <= ScoreDen

(***************************************************************************)
(* C1.  HTTP endpoint: when the model loaded at startup, the request       *)
(* carries an 'image' file that decodes and no library call fails, the     *)
(* handler answers 200 with a body whose keys are exactly 'prediction' and *)
(* 'confidence'.  The handler does not do so: line 78 raises NameError.    *)
(***************************************************************************)
C1_HttpSuccess ==
  (HttpDone /\ model = "model" /\ Uploaded("decodable") /\ ~HttpLibraryRaised)
    => /\ response.status = 200
       /\ DOMAIN response.body = SuccessKeys

(***************************************************************************)
(* C2.  Command line, as claimed: whenever the model loads, the image is   *)
(* read and inference returns a vector, main returns an object with keys   *)
(* exactly 'prediction' and 'confidence' and the script prints it.         *)
(***************************************************************************)
CliInferenceReturned ==
  /\ CliReturned
  /\ model = "model"
  /\ img_bgr = "image"
  /\ Ok("predict") \in Stages(ran)

C2_Original ==
  (CliInferenceReturned /\ Len(prediction) > 0)
    => /\ DOMAIN output_json = SuccessKeys
       /\ pc = "exit" => stdout = << output_json >>

\* C2, amended: whenever the model loads, the image is read and inference
\* returns a vector whose first maximal entry is at index 0 or 1, main returns
\* an object with keys exactly 'prediction' and 'confidence' and the script
\* prints it.
C2_CliSuccess ==
  (CliInferenceReturned /\ (FirstMaxAt(prediction, 1) \/ FirstMaxAt(prediction, 2)))
    => /\ DOMAIN output_json = SuccessKeys
       /\ pc = "exit" => stdout = << output_json >>

C2_Witness ==
  /\ CliInferenceReturned
  /\ FirstMaxAt(prediction, 2)
  /\ pc = "exit"
  /\ DOMAIN output_json = SuccessKeys
  /\ stdout = << output_json >>

(***************************************************************************)
(* C3.  In every success response of either entry point the label is one   *)
(* of the two fixed labels and names the first maximal entry of the output *)
(* vector: 'Healthy' for index 0 (also on a tie), 'FMD Diseased' for index *)
(* 1; when the first maximal entry lies past index 1 the error object is   *)
(* returned and carries no label.                                          *)
(***************************************************************************)
C3_LabelIsArgMax ==
  /\ (CliReturned /\ "prediction" \in DOMAIN output_json)
       => LabelRight(output_json, prediction)
  /\ (HttpDone /\ response.status = 200)
       => /\ "prediction" \in DOMAIN response.body
          /\ LabelRight(response.body, prediction)
  /\ (CliInferenceReturned /\ ~FirstMaxAt(prediction, 1) /\ ~FirstMaxAt(prediction, 2))
       => /\ "prediction" \notin DOMAIN output_json
          /\ "error" \in DOMAIN output_json

C3_Witness ==
  /\ CliExited
  /\ Len(prediction) = 2
  /\ prediction[1] = prediction[2]
  /\ DOMAIN output_json = SuccessKeys
  /\ output_json.prediction = "Healthy"

(***************************************************************************)
(* C4.  In every success response of either entry point the confidence is  *)
(* the greatest entry of the output vector, which is the entry the label   *)
(* names, written as 100 times the score with two decimals and a '%'.      *)
(***************************************************************************)
C4_ConfidenceIsMax ==
  /\ (CliReturned /\ DOMAIN output_json = SuccessKeys)
       => ConfidenceRight(output_json, prediction)
  /\ (HttpDone /\ response.status = 200)
       => /\ DOMAIN response.body = SuccessKeys
          /\ ConfidenceRight(response.body, prediction)

C4_Witness ==
  /\ CliExited
  /\ DOMAIN output_json = SuccessKeys
  /\ output_json.prediction = "FMD Diseased"
  /\ 32 * prediction[2] = 31 * ScoreDen
  /\ output_json.confidence = << "9", "6", ".", "8", "8", "%" >>

(***************************************************************************)
(* C5.  As claimed: every error outcome of either entry point is an object *)
(* carrying 'error', 'details' and 'trace'.                                *)
(***************************************************************************)
HttpErrorOutcome == HttpDone /\ response.status # 200
CliErrorOutcome == CliExited /\ "error" \in DOMAIN stdout[1]

C5_Original ==
  /\ HttpErrorOutcome => DOMAIN response.body = ErrorKeys
  /\ CliErrorOutcome => DOMAIN stdout[1] = ErrorKeys

\* C5, amended: every error outcome carries 'error'; the outcomes of the
\* catch-all except blocks carry 'error', 'details' (the text of the
\* exception) and 'trace' (its traceback); the HTTP answer to a failed model
\* load carries 'error' and 'details' (the startup traceback); the HTTP
\* answers to a missing or undecodable image and the command line's answer to
\* a missing path carry 'error' alone.
C5_ErrorShapes ==
  /\ HttpErrorOutcome =>
       /\ "error" \in DOMAIN response.body
       /\ exc # NoExc =>
            /\ DOMAIN response.body = ErrorKeys
            /\ response.body.details = Str(exc)
            /\ response.body.trace = FormatExc(exc)
       /\ (exc = NoExc /\ model = "None") =>
            /\ DOMAIN response.body = { "error", "details" }
            /\ response.body.details = model_load_error
       /\ (exc = NoExc /\ model # "None") => DOMAIN response.body = { "error" }
  /\ CliErrorOutcome =>
       /\ Len(argv) > 1 =>
            /\ exc # NoExc
            /\ DOMAIN stdout[1] = ErrorKeys
            /\ stdout[1].details = Str(exc)
            /\ stdout[1].trace = FormatExc(exc)
       /\ Len(argv) = 1 => DOMAIN stdout[1] = { "error" }
  /\ (entry = "cli" /\ exc # NoExc /\ pc \in { "print", "exit" }) =>
       DOMAIN output_json = ErrorKeys

C5_Witness ==
  /\ CliErrorOutcome
  /\ exc.type = "InvalidArgumentError"
  /\ DOMAIN stdout[1] = ErrorKeys

(***************************************************************************)
(* C6.  Within one request or invocation the stages run in pipeline order, *)
(* each at most once, a stage only after every earlier one succeeded; a    *)
(* failed stage is the last one run and the run ends with an error         *)
(* response; inference runs only on a decoded image.                       *)
(***************************************************************************)
C6_LinearPipeline ==
  /\ Len(ran) <= Len(PipelineOrder)
  /\ \A i \in 1 .. Len(ran) : ran[i].stage = PipelineOrder[i]
  /\ \A i \in 1 .. (Len(ran) - 1) : ran[i].ok
  /\ (Len(ran) > 0 /\ ~ran[Len(ran)].ok) =>
       IF entry = "http"
       THEN pc = "done" /\ response.status \in { 400, 500 }
                        /\ "error" \in DOMAIN response.body
       ELSE pc \in { "print", "exit" } /\ "error" \in DOMAIN output_json
  /\ (\E i \in 1 .. Len(ran) : ran[i].stage = "predict") => img_bgr = "image"
  /\ img_bgr = "None" => ran = << Failed("decode") >>

C6_Witness ==
  /\ CliExited
  /\ img_bgr = "None"
  /\ ran = << Failed("decode") >>
  /\ "error" \in DOMAIN stdout[1]

(***************************************************************************)
(* C7.  HTTP endpoint, failed model load: the application starts with      *)
(* model = None and the traceback kept, the model stays None, and every    *)
(* request is answered 500 with the load error and the startup traceback,  *)
(* before the request's files are looked at and without any stage run.     *)
(***************************************************************************)
C7_ModelNoneState ==
  (entry = "http" /\ model = "None") =>
    /\ model_load_error = FormatExc([type |-> "OSError", line |-> 24])
    /\ pc \in { "idle", "check_model", "done" }
    /\ ran = <<>>
    /\ img_bgr = "unset"
    /\ exc = NoExc
    /\ pc = "done" =>
         response = [status |-> 500,
                     body |-> [error |-> "Model failed to load on the server.",
                               details |-> model_load_error]]

C7_ModelLoadFailure ==
  /\ [] C7_ModelNoneState
  /\ [][model = "None" => model' = "None" /\ model_load_error' = model_load_error]_vars

C7_Witness ==
  /\ HttpDone
  /\ model = "None"
  /\ "image" \notin DOMAIN request.files
  /\ response.status = 500
  /\ response.body.details = model_load_error

(***************************************************************************)
(* C8.  HTTP endpoint with a loaded model: a request without an 'image'    *)
(* file is answered 400; one whose image imdecode rejects is answered 400; *)
(* an exception raised in the handler is answered 500 with 'error',        *)
(* 'details' and 'trace'; every request gets an answer, and an answer 200  *)
(* carries exactly 'prediction' and 'confidence'.                          *)
(***************************************************************************)
C8_HttpRequestErrors ==
  /\ (HttpDone /\ model = "model") =>
       /\ response.status \in { 200, 400, 500 }
       /\ "image" \notin DOMAIN request.files =>
            response.status = 400 /\ "error" \in DOMAIN response.body
       /\ (Uploaded("undecodable") /\ exc = NoExc) =>
            response.status = 400 /\ "error" \in DOMAIN response.body
       /\ exc # NoExc =>
            response.status = 500 /\ DOMAIN response.body = ErrorKeys
       /\ response.status = 200 => DOMAIN response.body = SuccessKeys
       /\ response.status = 400 => exc = NoExc
  /\ (entry = "http" /\ model = "model") => (pc = "done" \/ ENABLED Next)
  /\ (entry = "http" /\ exc # NoExc) => pc = "done"

C8_Witness ==
  /\ HttpDone
  /\ model = "model"
  /\ Uploaded("undecodable")
  /\ img_bgr = "None"
  /\ response.status = 400

(***************************************************************************)
(* C9.  Command line: every invocation ends having printed exactly one     *)
(* object; without a path argument it is the 'No image path' error and     *)
(* neither main nor the model load has run; with one it is the success     *)
(* object or the error object of main; the model is loaded before the      *)
(* image is read, so a failed load is the error reported whatever the      *)
(* path.                                                                   *)
(***************************************************************************)
C9_CliTotality ==
  entry = "cli" =>
    /\ pc = "exit" \/ ENABLED Next
    /\ Len(stdout) <= 1
    /\ pc = "exit" => Len(stdout) = 1
    /\ (pc = "exit" /\ Len(argv) = 1) =>
         /\ stdout = << [error |-> "No image path provided to Python script"] >>
         /\ model = "unset"
         /\ output_json = <<>>
         /\ ran = <<>>
    /\ (pc = "exit" /\ Len(argv) > 1) =>
         /\ stdout = << output_json >>
         /\ DOMAIN output_json \in { SuccessKeys, ErrorKeys }
    /\ model # "model" => (img_bgr = "unset" /\ ran = <<>>)
    /\ (pc = "exit" /\ Len(argv) > 1 /\ model # "model") =>
         /\ exc = [type |-> "OSError", line |-> 35]
         /\ stdout[1].details = Str(exc)

C9_Witness ==
  /\ CliExited
  /\ Len(argv) > 1
  /\ argv[2] \notin ReadablePaths
  /\ model = "unset"
  /\ exc = [type |-> "OSError", line |-> 35]
  /\ DOMAIN stdout[1] = ErrorKeys

====
